---- MODULE Spec2Model ----
(***************************************************************************)
(* A model of the mock-itr-scenario MCP server: the error taxonomy         *)
(* (models/enums.py), the scenario entities and their serialization        *)
(* (models/scenario.py), and the tool handlers of server.py.               *)
(*                                                                         *)
(* Conventions.                                                            *)
(*  - A Python dict whose keys may be missing is a record whose fields are *)
(*    sequences of length at most one: <<>> is "key absent", <<v>> is      *)
(*    "key present with value v" (Absent / Key).                           *)
(*  - An Optional[str] value is <<>> for None and <<s>> for the string s   *)
(*    (None / Str).                                                        *)
(*  - The Korean string literals of the source cannot be written in a      *)
(*    TLA+ string; each is replaced by a distinct ASCII tag.  The enum     *)
(*    values of ErrorType are tagged by their member names.                *)
(*  - delay_seconds is kept in tenths of a second (0.5 s is 5).            *)
(***************************************************************************)
EXTENDS Integers, Sequences, FiniteSets, TLC

VARIABLES
    TEMPLATES,    \* server.py:40, the process-wide template cache, in insertion order
    disk,         \* the templates directory of the mock-itrLoader project
    table,        \* the DynamoDB table: user_ern -> stored item
    last          \* the tool call being answered: name, arguments, result, store calls

vars == <<TEMPLATES, disk, table, last>>

(***************************************************************************)
(* Python values                                                           *)
(***************************************************************************)
Absent == <<>>
Key(v) == <<v>>
None == <<>>
Str(s) == <<s>>

\* dict.get(key, default)
Get(field, default) == IF field = Absent THEN default ELSE field[1]

\* sub in s, for strings
Contains(s, sub) ==
    \E i \in 1..(Len(s) - Len(sub) + 1) : SubSeq(s, i, i + Len(sub) - 1) = sub

SeqToSet(s) == {s[i] : i \in DOMAIN s}

(***************************************************************************)
(* models/enums.py                                                         *)
(***************************************************************************)
BizType == <<"individual_biz", "non_biz", "corp">>

ErrorType ==
    <<"NO_TAX_RETURN", "NO_BIZ", "CALC_ERROR", "ALREADY_REFUNDED", "NOT_COMPLETE",
      "NO_CONT_BIZ", "AUTH_EXPIRED", "AUTH_NOT_COMPLETE", "LOGIN_FAILED",
      "SESSION_EXPIRED", "INVALID_SSN">>

ActionType == <<"cert_request", "cert_response", "check", "load", "calc">>

ERROR_MESSAGES ==
    [NO_TAX_RETURN     |-> "msg: no income tax return on file",
     NO_BIZ            |-> "msg: no business registration",
     CALC_ERROR        |-> "msg: error while calculating the refund",
     ALREADY_REFUNDED  |-> "msg: refund already processed",
     NOT_COMPLETE      |-> "msg: processing not complete",
     NO_CONT_BIZ       |-> "msg: no continuing business",
     AUTH_EXPIRED      |-> "msg: auth token expired",
     AUTH_NOT_COMPLETE |-> "msg: auth not completed",
     LOGIN_FAILED      |-> "msg: hometax login failed",
     SESSION_EXPIRED   |-> "msg: session expired",
     INVALID_SSN       |-> "msg: invalid resident number"]

\* A taxonomy in which the calculation error defaults to the calculation stage.
ERROR_DEFAULT_ACTION_calc ==
    [NO_TAX_RETURN     |-> "load",
     NO_BIZ            |-> "load",
     CALC_ERROR        |-> "calc",
     ALREADY_REFUNDED  |-> "load",
     NOT_COMPLETE      |-> "load",
     NO_CONT_BIZ       |-> "load",
     AUTH_EXPIRED      |-> "cert_response",
     AUTH_NOT_COMPLETE |-> "cert_response",
     LOGIN_FAILED      |-> "check",
     SESSION_EXPIRED   |-> "check",
     INVALID_SSN       |-> "check"]

ERROR_DEFAULT_ACTION ==
    [NO_TAX_RETURN     |-> "load",
     NO_BIZ            |-> "load",
     CALC_ERROR        |-> "load",
     ALREADY_REFUNDED  |-> "load",
     NOT_COMPLETE      |-> "load",
     NO_CONT_BIZ       |-> "load",
     AUTH_EXPIRED      |-> "cert_response",
     AUTH_NOT_COMPLETE |-> "cert_response",
     LOGIN_FAILED      |-> "check",
     SESSION_EXPIRED   |-> "check",
     INVALID_SSN       |-> "check"]

\* An enum constructor that accepts any string.
ErrorType_lookup_any(value) == [ok |-> TRUE, member |-> value]

\* ErrorType(value): the member with that value, or ValueError.
ErrorType_lookup(value) ==
    [ok |-> value \in SeqToSet(ErrorType), member |-> value]

\* BizType(value): the member with that value, or ValueError.
BizType_lookup(value) ==
    [ok |-> value \in SeqToSet(BizType), member |-> value]

(***************************************************************************)
(* models/scenario.py: the entities and their defaults                     *)
(***************************************************************************)
UserInfo_default == [name |-> "test user", phone |-> None, birthday |-> None]

TaxpayerInfo_default == [tin |-> None]

RefundResult_default ==
    [total_refund |-> 0, startup_refund |-> 0, employment_refund |-> 0,
     insurance_refund |-> 0]

ActionConfig_default == [success |-> TRUE, error_type |-> None, error_msg |-> None]

ProgressConfig_default == [enabled |-> FALSE, queue_name |-> "", steps |-> <<>>]

ScenarioConfig_default ==
    [scenario_name        |-> "",
     description          |-> "",
     user_info            |-> UserInfo_default,
     taxpayer_info        |-> TaxpayerInfo_default,
     biz_type             |-> "individual_biz",
     refund_result        |-> RefundResult_default,
     cert_request_config  |-> ActionConfig_default,
     cert_response_config |-> ActionConfig_default,
     check_config         |-> ActionConfig_default,
     load_config          |-> ActionConfig_default,
     progress_config      |-> ProgressConfig_default]

\* Every field is emitted under its own name; nested objects recurse.
UserInfo_to_dict(u) ==
    [name |-> Key(u.name), phone |-> Key(u.phone), birthday |-> Key(u.birthday)]

TaxpayerInfo_to_dict(t) == [tin |-> Key(t.tin)]

RefundResult_to_dict(r) ==
    [total_refund      |-> Key(r.total_refund),
     startup_refund    |-> Key(r.startup_refund),
     employment_refund |-> Key(r.employment_refund),
     insurance_refund  |-> Key(r.insurance_refund)]

ActionConfig_to_dict(a) ==
    [success |-> Key(a.success), error_type |-> Key(a.error_type),
     error_msg |-> Key(a.error_msg)]

ProgressStep_to_dict(p) ==
    [step_name |-> Key(p.step_name), progress |-> Key(p.progress),
     delay_seconds |-> Key(p.delay_seconds)]

ProgressConfig_to_dict(p) ==
    [enabled    |-> Key(p.enabled),
     queue_name |-> Key(p.queue_name),
     steps      |-> Key([i \in DOMAIN p.steps |-> ProgressStep_to_dict(p.steps[i])])]

to_dict(s) ==
    [scenario_name        |-> Key(s.scenario_name),
     description          |-> Key(s.description),
     user_info            |-> Key(UserInfo_to_dict(s.user_info)),
     taxpayer_info        |-> Key(TaxpayerInfo_to_dict(s.taxpayer_info)),
     biz_type             |-> Key(s.biz_type),
     refund_result        |-> Key(RefundResult_to_dict(s.refund_result)),
     cert_request_config  |-> Key(ActionConfig_to_dict(s.cert_request_config)),
     cert_response_config |-> Key(ActionConfig_to_dict(s.cert_response_config)),
     check_config         |-> Key(ActionConfig_to_dict(s.check_config)),
     load_config          |-> Key(ActionConfig_to_dict(s.load_config)),
     progress_config      |-> Key(ProgressConfig_to_dict(s.progress_config))]

(***************************************************************************)
(* server.py: the builders                                                 *)
(***************************************************************************)
\* f"{n:03d}"
Pad3(n) ==
    IF n < 10 THEN "00" \o ToString(n)
    ELSE IF n < 100 THEN "0" \o ToString(n)
    ELSE ToString(n)

\* f"{n:,}" for n >= 0
RECURSIVE FormatComma(_)
FormatComma(n) ==
    IF n < 1000 THEN ToString(n)
    ELSE FormatComma(n \div 1000) \o "," \o Pad3(n % 1000)

handle_scenario_build_normal(arguments) ==
    LET user_name    == Get(arguments.user_name, "test user")
        total_refund == Get(arguments.total_refund, 0)
        biz_type_str == Get(arguments.biz_type, "individual_biz")
        startup      == Get(arguments.startup_refund, 0)
        employment   == Get(arguments.employment_refund, 0)
        insurance    == Get(arguments.insurance_refund, 0)
        biz_type     == BizType_lookup(biz_type_str)
        scenario     ==
            [ScenarioConfig_default EXCEPT
                !.scenario_name = "normal_refund_" \o user_name \o "_"
                                    \o ToString(total_refund) \o "won",
                !.description   = user_name \o ": normal refund scenario (total "
                                    \o FormatComma(total_refund) \o " won)",
                !.user_info     = [UserInfo_default EXCEPT !.name = user_name],
                !.biz_type      = biz_type.member,
                !.refund_result = [total_refund      |-> total_refund,
                                   startup_refund    |-> startup,
                                   employment_refund |-> employment,
                                   insurance_refund  |-> insurance]]
    IN  IF ~biz_type.ok
        THEN [raised |-> "ValueError: not a valid BizType: " \o biz_type_str]
        ELSE [scenario |-> to_dict(scenario)]

\* if / if / if / else: every stage but "check" also falls through to load.
set_error_config_fallthrough(scenario, action_str, error_config) ==
    LET s1 == IF action_str = "cert_request"
              THEN [scenario EXCEPT !.cert_request_config = error_config]
              ELSE scenario
        s2 == IF action_str = "cert_response"
              THEN [s1 EXCEPT !.cert_response_config = error_config]
              ELSE s1
    IN  IF action_str = "check"
        THEN [s2 EXCEPT !.check_config = error_config]
        ELSE [s2 EXCEPT !.load_config = error_config]

\* The final else writes the check slot instead of the load slot.
set_error_config_else_check(scenario, action_str, error_config) ==
    IF action_str = "cert_request"
    THEN [scenario EXCEPT !.cert_request_config = error_config]
    ELSE IF action_str = "cert_response"
    THEN [scenario EXCEPT !.cert_response_config = error_config]
    ELSE IF action_str = "load"
    THEN [scenario EXCEPT !.load_config = error_config]
    ELSE [scenario EXCEPT !.check_config = error_config]

\* server.py:450-457, the chain that picks the slot
set_error_config(scenario, action_str, error_config) ==
    IF action_str = "cert_request"
    THEN [scenario EXCEPT !.cert_request_config = error_config]
    ELSE IF action_str = "cert_response"
    THEN [scenario EXCEPT !.cert_response_config = error_config]
    ELSE IF action_str = "check"
    THEN [scenario EXCEPT !.check_config = error_config]
    ELSE [scenario EXCEPT !.load_config = error_config]

handle_scenario_build_error(arguments) ==
    LET user_name      == Get(arguments.user_name, "test user")
        error_type_str == Get(arguments.error_type, "")
        error_msg_arg  == Get(arguments.error_msg, "")
        action_arg     == Get(arguments.action, "")
        error_type     == ErrorType_lookup(error_type_str)
        kind           == error_type.member
        error_msg ==
            IF error_msg_arg = ""
            THEN IF kind \in DOMAIN ERROR_MESSAGES
                 THEN ERROR_MESSAGES[kind]
                 ELSE "msg: unknown error"
            ELSE error_msg_arg
        action_str ==
            IF action_arg = ""
            THEN IF kind \in DOMAIN ERROR_DEFAULT_ACTION
                 THEN ERROR_DEFAULT_ACTION[kind]
                 ELSE "load"
            ELSE action_arg
        scenario ==
            [ScenarioConfig_default EXCEPT
                !.scenario_name = "error_" \o kind \o "_" \o user_name,
                !.description   = user_name \o ": " \o kind \o " error scenario",
                !.user_info     = [UserInfo_default EXCEPT !.name = user_name]]
        error_config ==
            [success |-> FALSE, error_type |-> Str(kind), error_msg |-> Str(error_msg)]
    IN  IF ~error_type.ok
        THEN [error           |-> "Unknown error type: " \o error_type_str,
              available_types |-> ErrorType]
        ELSE [scenario |-> to_dict(set_error_config(scenario, action_str, error_config))]

\* Default steps that all wait 0.5 s.
DefaultSteps_uniform_delay ==
    << [step_name |-> Key("hometax login"),  progress |-> Key("10%"), delay_seconds |-> Key(5)],
       [step_name |-> Key("history lookup"), progress |-> Key("30%"), delay_seconds |-> Key(5)],
       [step_name |-> Key("refund calculation"), progress |-> Key("60%"), delay_seconds |-> Key(5)],
       [step_name |-> Key("result generation"), progress |-> Key("90%"), delay_seconds |-> Key(5)] >>

\* server.py:474-479
DefaultSteps ==
    << [step_name |-> Key("hometax login"),  progress |-> Key("10%"), delay_seconds |-> Key(5)],
       [step_name |-> Key("history lookup"), progress |-> Key("30%"), delay_seconds |-> Key(10)],
       [step_name |-> Key("refund calculation"), progress |-> Key("60%"), delay_seconds |-> Key(15)],
       [step_name |-> Key("result generation"), progress |-> Key("90%"), delay_seconds |-> Key(5)] >>

handle_scenario_build_progress(arguments) ==
    LET user_name    == Get(arguments.user_name, "test user")
        total_refund == Get(arguments.total_refund, 0)
        queue_name   == Get(arguments.queue_name, "refund-search.fifo")
        steps_arg    == Get(arguments.steps, <<>>)
        steps_data   == IF steps_arg = <<>> THEN DefaultSteps ELSE steps_arg
        steps ==
            [i \in DOMAIN steps_data |->
                [step_name     |-> Get(steps_data[i].step_name, ""),
                 progress      |-> Get(steps_data[i].progress, "0%"),
                 delay_seconds |-> Get(steps_data[i].delay_seconds, 5)]]
        scenario ==
            [ScenarioConfig_default EXCEPT
                !.scenario_name   = "progress_test_" \o user_name,
                !.description     = user_name \o ": progress reporting test scenario",
                !.user_info       = [UserInfo_default EXCEPT !.name = user_name],
                !.refund_result   = [RefundResult_default EXCEPT
                                        !.total_refund = total_refund],
                !.progress_config = [enabled    |-> TRUE,
                                     queue_name |-> queue_name,
                                     steps      |-> steps]]
    IN  [scenario |-> to_dict(scenario)]

(***************************************************************************)
(* models/scenario.py: from_dict                                           *)
(***************************************************************************)
\* A JSON value that is not an object (a string, a number, a list).
NotAMapping == [not_a_mapping |-> TRUE]

IsMapping(v) == "not_a_mapping" \notin DOMAIN v

\* The dict {} of each shape: every key absent.
EmptyUserInfoDict == [name |-> Absent, phone |-> Absent, birthday |-> Absent]

EmptyTaxpayerInfoDict == [tin |-> Absent]

EmptyRefundResultDict ==
    [total_refund |-> Absent, startup_refund |-> Absent, employment_refund |-> Absent,
     insurance_refund |-> Absent]

EmptyActionConfigDict == [success |-> Absent, error_type |-> Absent, error_msg |-> Absent]

EmptyProgressConfigDict == [enabled |-> Absent, queue_name |-> Absent, steps |-> Absent]

EmptyScenarioDict ==
    [scenario_name        |-> Absent,
     description          |-> Absent,
     user_info            |-> Absent,
     taxpayer_info        |-> Absent,
     biz_type             |-> Absent,
     refund_result        |-> Absent,
     cert_request_config  |-> Absent,
     cert_response_config |-> Absent,
     check_config         |-> Absent,
     load_config          |-> Absent,
     progress_config      |-> Absent]

UserInfo_from_dict(d) ==
    [name     |-> Get(d.name, UserInfo_default.name),
     phone    |-> Get(d.phone, UserInfo_default.phone),
     birthday |-> Get(d.birthday, UserInfo_default.birthday)]

TaxpayerInfo_from_dict(d) == [tin |-> Get(d.tin, TaxpayerInfo_default.tin)]

RefundResult_from_dict(d) ==
    [total_refund      |-> Get(d.total_refund, RefundResult_default.total_refund),
     startup_refund    |-> Get(d.startup_refund, RefundResult_default.startup_refund),
     employment_refund |-> Get(d.employment_refund, RefundResult_default.employment_refund),
     insurance_refund  |-> Get(d.insurance_refund, RefundResult_default.insurance_refund)]

ActionConfig_from_dict(d) ==
    [success    |-> Get(d.success, ActionConfig_default.success),
     error_type |-> Get(d.error_type, ActionConfig_default.error_type),
     error_msg  |-> Get(d.error_msg, ActionConfig_default.error_msg)]

\* from_dict of the steps that keeps the default delay of every step.
ProgressStep_from_dict_default_delay(d) ==
    [step_name     |-> Get(d.step_name, ""),
     progress      |-> Get(d.progress, "0%"),
     delay_seconds |-> 5]

ProgressStep_from_dict(d) ==
    [step_name     |-> Get(d.step_name, ""),
     progress      |-> Get(d.progress, "0%"),
     delay_seconds |-> Get(d.delay_seconds, 5)]

ProgressConfig_from_dict(d) ==
    LET steps == Get(d.steps, <<>>)
    IN  [enabled    |-> Get(d.enabled, ProgressConfig_default.enabled),
         queue_name |-> Get(d.queue_name, ProgressConfig_default.queue_name),
         steps      |-> [i \in DOMAIN steps |-> ProgressStep_from_dict(steps[i])]]

\* The keys of a scenario dict whose value must be a mapping.
NestedKeys ==
    {"user_info", "taxpayer_info", "refund_result", "cert_request_config",
     "cert_response_config", "check_config", "load_config", "progress_config"}

\* The first thing that cannot be coerced, or "" when the dict deserializes.
from_dict_error(data) ==
    IF ~IsMapping(data) THEN "scenario is not a mapping"
    ELSE IF \E k \in NestedKeys : data[k] # Absent /\ ~IsMapping(data[k][1])
    THEN LET k == CHOOSE k \in NestedKeys : data[k] # Absent /\ ~IsMapping(data[k][1])
         IN  k \o " is not a mapping"
    ELSE IF data.biz_type # Absent /\ ~BizType_lookup(data.biz_type[1]).ok
    THEN "biz_type is not a valid BizType: " \o data.biz_type[1]
    ELSE ""

\* ScenarioConfig.from_dict: [ok, scenario] or [ok, error].
from_dict(data) ==
    LET error == from_dict_error(data)
        Nested(k, empty) == Get(data[k], empty)
    IN  IF error # ""
        THEN [ok |-> FALSE, error |-> error]
        ELSE [ok |-> TRUE,
              scenario |->
                [scenario_name |-> Get(data.scenario_name, ScenarioConfig_default.scenario_name),
                 description   |-> Get(data.description, ScenarioConfig_default.description),
                 user_info     |-> UserInfo_from_dict(Nested("user_info", EmptyUserInfoDict)),
                 taxpayer_info |->
                    TaxpayerInfo_from_dict(Nested("taxpayer_info", EmptyTaxpayerInfoDict)),
                 biz_type      |-> Get(data.biz_type, ScenarioConfig_default.biz_type),
                 refund_result |->
                    RefundResult_from_dict(Nested("refund_result", EmptyRefundResultDict)),
                 cert_request_config |->
                    ActionConfig_from_dict(Nested("cert_request_config", EmptyActionConfigDict)),
                 cert_response_config |->
                    ActionConfig_from_dict(Nested("cert_response_config", EmptyActionConfigDict)),
                 check_config |->
                    ActionConfig_from_dict(Nested("check_config", EmptyActionConfigDict)),
                 load_config |->
                    ActionConfig_from_dict(Nested("load_config", EmptyActionConfigDict)),
                 progress_config |->
                    ProgressConfig_from_dict(
                        Nested("progress_config", EmptyProgressConfigDict))]]

(***************************************************************************)
(* server.py: the validator                                                *)
(***************************************************************************)
\* bool(s) for an Optional[str]
Truthy(s) == s # None /\ s[1] # ""

ZERO_REFUND_WARNING == "warning: individual business scenario with a refund of 0 won"
PHONE_WARNING == "warning: phone number is not 11 digits"
BIRTHDAY_ERROR == "error: birthday must be in YYYYMMDD format"
TIN_ERROR == "error: taxpayer number must be 18 digits"
PARSE_ERROR == "scenario parse error: "

\* The rules as an if / elif chain: at most one of them reports.
validate_rules_elif(scenario) ==
    IF scenario.biz_type = "individual_biz" /\ scenario.refund_result.total_refund = 0
    THEN [errors |-> <<>>, warnings |-> <<ZERO_REFUND_WARNING>>]
    ELSE IF Truthy(scenario.user_info.phone) /\ Len(scenario.user_info.phone[1]) # 11
    THEN [errors |-> <<>>, warnings |-> <<PHONE_WARNING>>]
    ELSE IF Truthy(scenario.user_info.birthday) /\ Len(scenario.user_info.birthday[1]) # 8
    THEN [errors |-> <<BIRTHDAY_ERROR>>, warnings |-> <<>>]
    ELSE IF Truthy(scenario.taxpayer_info.tin) /\ Len(scenario.taxpayer_info.tin[1]) # 18
    THEN [errors |-> <<TIN_ERROR>>, warnings |-> <<>>]
    ELSE [errors |-> <<>>, warnings |-> <<>>]

\* The zero-refund finding appended to errors instead of warnings.
validate_rules_zero_refund_error(scenario) ==
    LET e0 == IF scenario.biz_type = "individual_biz"
                 /\ scenario.refund_result.total_refund = 0
              THEN <<ZERO_REFUND_WARNING>> ELSE <<>>
        w2 == IF Truthy(scenario.user_info.phone)
                 /\ Len(scenario.user_info.phone[1]) # 11
              THEN <<PHONE_WARNING>> ELSE <<>>
        e1 == IF Truthy(scenario.user_info.birthday)
                 /\ Len(scenario.user_info.birthday[1]) # 8
              THEN <<BIRTHDAY_ERROR>> ELSE <<>>
        e2 == IF Truthy(scenario.taxpayer_info.tin)
                 /\ Len(scenario.taxpayer_info.tin[1]) # 18
              THEN <<TIN_ERROR>> ELSE <<>>
    IN  [errors |-> e0 \o e1 \o e2, warnings |-> w2]

\* server.py:519-530, the four rules in source order
validate_rules(scenario) ==
    LET w1 == IF scenario.biz_type = "individual_biz"
                 /\ scenario.refund_result.total_refund = 0
              THEN <<ZERO_REFUND_WARNING>> ELSE <<>>
        w2 == IF Truthy(scenario.user_info.phone)
                 /\ Len(scenario.user_info.phone[1]) # 11
              THEN <<PHONE_WARNING>> ELSE <<>>
        e1 == IF Truthy(scenario.user_info.birthday)
                 /\ Len(scenario.user_info.birthday[1]) # 8
              THEN <<BIRTHDAY_ERROR>> ELSE <<>>
        e2 == IF Truthy(scenario.taxpayer_info.tin)
                 /\ Len(scenario.taxpayer_info.tin[1]) # 18
              THEN <<TIN_ERROR>> ELSE <<>>
    IN  [errors |-> e1 \o e2, warnings |-> w1 \o w2]

\* Without the try / except: the parse failure leaves the handler as an exception.
handle_scenario_validate_uncaught(arguments) ==
    LET parsed == from_dict(Get(arguments.scenario, EmptyScenarioDict))
    IN  IF parsed.ok
        THEN [valid    |-> validate_rules(parsed.scenario).errors = <<>>,
              errors   |-> validate_rules(parsed.scenario).errors,
              warnings |-> validate_rules(parsed.scenario).warnings]
        ELSE [raised |-> parsed.error]

handle_scenario_validate(arguments) ==
    LET scenario_data == Get(arguments.scenario, EmptyScenarioDict)
        parsed        == from_dict(scenario_data)
        found ==
            IF parsed.ok
            THEN validate_rules(parsed.scenario)
            ELSE [errors |-> <<PARSE_ERROR \o parsed.error>>, warnings |-> <<>>]
    IN  [valid    |-> Len(found.errors) = 0,
         errors   |-> found.errors,
         warnings |-> found.warnings]

(***************************************************************************)
(* server.py: the template catalog                                         *)
(***************************************************************************)
\* The longest prefix of the globbed files that json.load accepts: the loop
\* stores one file after the other and the first failure ends it.
RECURSIVE LoadedPrefix(_)
LoadedPrefix(files) ==
    IF files = <<>> \/ ~files[1].parses THEN <<>>
    ELSE <<[template_id |-> files[1].template_id, data |-> files[1].data]>>
            \o LoadedPrefix(Tail(files))

\* Without the cache test: the directory is read on every call.
load_templates_uncached(templates, dir) ==
    IF ~dir.templates_dir_exists THEN templates
    ELSE LoadedPrefix(dir.files)

\* load_templates(): the cache when it holds anything, otherwise what the
\* directory gives now; the value returned is the new value of TEMPLATES.
load_templates(templates, dir) ==
    IF templates # <<>> THEN templates
    ELSE IF ~dir.templates_dir_exists THEN templates
    ELSE LoadedPrefix(dir.files)

\* The keys, last inserted first.
template_ids_reversed(templates) ==
    [i \in DOMAIN templates |-> templates[Len(templates) + 1 - i].template_id]

\* list(templates.keys())
template_ids(templates) == [i \in DOMAIN templates |-> templates[i].template_id]

\* template_id in templates
HasTemplate(templates, template_id) ==
    \E i \in DOMAIN templates : templates[i].template_id = template_id

\* templates[template_id]
TemplateData(templates, template_id) ==
    templates[CHOOSE i \in DOMAIN templates : templates[i].template_id = template_id].data

template_not_found(templates, template_id) ==
    [error               |-> "Template not found: " \o template_id,
     available_templates |-> template_ids(templates)]

\* [result, templates]: what is returned and the cache afterwards
handle_template_load(arguments, templates0, dir) ==
    LET template_id == Get(arguments.template_id, "")
        templates   == load_templates(templates0, dir)
    IN  [templates |-> templates,
         result    |-> IF ~HasTemplate(templates, template_id)
                       THEN template_not_found(templates, template_id)
                       ELSE TemplateData(templates, template_id)]

\* The "normal" category also leaves out the corporate templates.
category_skips_disjoint(category, template_id) ==
    category # "all"
    /\ \/ category = "normal"
            /\ (Contains(template_id, "ERR") \/ Contains(template_id, "CORP"))
       \/ category = "error" /\ ~Contains(template_id, "ERR")
       \/ category = "corp" /\ ~Contains(template_id, "CORP")

\* server.py:330-336, the three continue statements
category_skips(category, template_id) ==
    category # "all"
    /\ \/ category = "normal" /\ Contains(template_id, "ERR")
       \/ category = "error" /\ ~Contains(template_id, "ERR")
       \/ category = "corp" /\ ~Contains(template_id, "CORP")

\* server.py:339-349, the summary of one template
template_summary(template_id, template_data) ==
    LET refund_result == Get(template_data.refund_result, EmptyRefundResultDict)
    IN  [template_id  |-> template_id,
         description  |-> Get(template_data.description, ""),
         total_refund |-> Get(refund_result.total_refund, 0),
         biz_type     |-> Get(template_data.biz_type, "unknown")]

\* The loop over templates.items(): skip, or append the summary.
RECURSIVE list_loop(_, _)
list_loop(category, templates) ==
    IF templates = <<>> THEN <<>>
    ELSE IF category_skips(category, templates[1].template_id)
    THEN list_loop(category, Tail(templates))
    ELSE <<template_summary(templates[1].template_id, templates[1].data)>>
            \o list_loop(category, Tail(templates))

\* The filter applied in place: the skipped templates leave the cache.
handle_template_list_prunes(arguments, templates0, dir) ==
    LET category  == Get(arguments.category, "all")
        loaded    == load_templates(templates0, dir)
        templates == SelectSeq(loaded,
                               LAMBDA t : ~category_skips(category, t.template_id))
        result    == list_loop(category, templates)
    IN  [templates |-> templates,
         result    |-> [templates |-> result, count |-> Len(result)]]

\* [result, templates]: what is returned and the cache afterwards
handle_template_list(arguments, templates0, dir) ==
    LET category  == Get(arguments.category, "all")
        templates == load_templates(templates0, dir)
        result    == list_loop(category, templates)
    IN  [templates |-> templates,
         result    |-> [templates |-> result, count |-> Len(result)]]

(***************************************************************************)
(* server.py: assignment                                                   *)
(***************************************************************************)
\* bool(d) for a dict: it has a key
TruthyDict(d) == \E k \in DOMAIN d : d[k] # Absent

\* A failed attempt is made again before the failure is reported.
store_attempts_retry(call, outcome) ==
    IF outcome.ok THEN <<call>> ELSE <<call, call>>

\* The calls one pass through the try block makes on the store.
store_attempts(call, outcome) == <<call>>

\* The except block without the scenario.
assign_failure_result_dropped(user_ern, scenario, reason) ==
    [success  |-> FALSE,
     error    |-> "DynamoDB save failed: " \o reason,
     user_ern |-> user_ern]

\* server.py:610-621
assign_failure_result(user_ern, scenario, reason) ==
    [success  |-> FALSE,
     error    |-> "DynamoDB save failed: " \o reason,
     user_ern |-> user_ern,
     scenario |-> scenario,
     note     |-> "could not save to DynamoDB; save the scenario above by hand"]

\* The except block without str(e).
unassign_failure_result_no_reason(user_ern, reason) ==
    [success  |-> FALSE,
     error    |-> "DynamoDB delete failed",
     user_ern |-> user_ern]

\* server.py:658-666
unassign_failure_result(user_ern, reason) ==
    [success  |-> FALSE,
     error    |-> "DynamoDB delete failed: " \o reason,
     user_ern |-> user_ern]

\* server.py:579-621, with the scenario resolved
assign_store_step(user_ern, scenario, templates, outcome) ==
    LET call == [capability |-> "put", key |-> user_ern,
                 item |-> [user_ern |-> user_ern, scenario_config |-> scenario]]
    IN  [templates   |-> templates,
         store_calls |-> store_attempts(call, outcome),
         result      |->
            IF outcome.ok
            THEN [success  |-> TRUE,
                  user_ern |-> user_ern,
                  message  |-> "scenario assigned to " \o user_ern]
            ELSE assign_failure_result(user_ern, scenario, outcome.reason)]

\* [result, templates, store_calls]: what is returned, the cache afterwards,
\* and the calls made on the store
handle_scenario_assign(arguments, templates0, dir, outcome) ==
    LET user_ern      == Get(arguments.user_ern, "")
        scenario_data == arguments.scenario
        template_id   == arguments.template_id
        templates     == load_templates(templates0, dir)
    IN  IF user_ern = ""
        THEN [templates   |-> templates0,
              store_calls |-> <<>>,
              result      |-> [error |-> "user_ern is required"]]
        ELSE IF scenario_data # Absent /\ TruthyDict(scenario_data[1])
        THEN assign_store_step(user_ern, scenario_data[1], templates0, outcome)
        ELSE IF template_id # Absent /\ template_id[1] # ""
        THEN IF ~HasTemplate(templates, template_id[1])
             THEN [templates   |-> templates,
                   store_calls |-> <<>>,
                   result      |-> template_not_found(templates, template_id[1])]
             ELSE assign_store_step(user_ern, TemplateData(templates, template_id[1]),
                                    templates, outcome)
        ELSE [templates   |-> templates0,
              store_calls |-> <<>>,
              result      |-> [error |-> "Either scenario or template_id is required"]]

\* [result, store_calls]
handle_scenario_unassign(arguments, outcome) ==
    LET user_ern == Get(arguments.user_ern, "")
        call     == [capability |-> "delete", key |-> user_ern]
    IN  IF user_ern = ""
        THEN [store_calls |-> <<>>,
              result      |-> [error |-> "user_ern is required"]]
        ELSE [store_calls |-> store_attempts(call, outcome),
              result      |->
                IF outcome.ok
                THEN [success  |-> TRUE,
                      user_ern |-> user_ern,
                      message  |-> "scenario assignment removed from " \o user_ern]
                ELSE unassign_failure_result(user_ern, outcome.reason)]

(***************************************************************************)
(* The arguments the tools are called with                                 *)
(***************************************************************************)
NoDisk == [templates_dir_exists |-> FALSE, files |-> <<>>]

UserErns == {"U1"}

UserNames == {Absent, Key("Hong")}

Refunds == {Absent, Key(0), Key(3000000)}

BuildNormalArgs ==
    [user_name         : UserNames,
     total_refund      : Refunds,
     biz_type          : {Absent, Key("individual_biz"), Key("corp"), Key("freelancer")},
     startup_refund    : {Absent, Key(1000000)},
     employment_refund : {Absent},
     insurance_refund  : {Absent, Key(500000)}]

BuildErrorArgs ==
    [user_name  : UserNames,
     error_type : {Absent, Key("not-a-real-kind")} \cup {Key(e) : e \in SeqToSet(ErrorType)},
     error_msg  : {Absent, Key(""), Key("custom message")},
     action     : {Absent, Key(""), Key("bogus")} \cup {Key(a) : a \in SeqToSet(ActionType)}]

StepDicts ==
    {[step_name |-> Key("upload"), progress |-> Key("50%"), delay_seconds |-> Key(20)],
     [step_name |-> Key("poll"), progress |-> Key("75%"), delay_seconds |-> Key(0)],
     [step_name |-> Key("finish"), progress |-> Key("100%"), delay_seconds |-> Absent]}

MaxSteps == 2

StepLists ==
    UNION {[1..n -> StepDicts] : n \in 0..MaxSteps}

BuildProgressArgs ==
    [user_name    : UserNames,
     total_refund : {Absent, Key(100000)},
     queue_name   : {Absent, Key("q")},
     steps        : {Absent} \cup {Key(l) : l \in StepLists}]

UserInfoDicts ==
    [name     : {Absent},
     phone    : {Absent, Key(Str("0101234")), Key(Str("01012345678"))},
     birthday : {Absent, Key(None), Key(Str("")), Key(Str("2024")), Key(Str("19900101"))}]

TaxpayerInfoDicts ==
    [tin : {Absent, Key(Str("123")), Key(Str("123456789012345678"))}]

RefundResultDicts ==
    {[EmptyRefundResultDict EXCEPT !.total_refund = t] : t \in {Absent, Key(0), Key(100000)}}

\* The scenario dicts validate is called with.
ScenarioDicts ==
    {NotAMapping}
    \cup { [EmptyScenarioDict EXCEPT
                !.user_info     = u,
                !.taxpayer_info = t,
                !.biz_type      = b,
                !.refund_result = r] :
            u \in {Absent} \cup {Key(d) : d \in UserInfoDicts},
            t \in {Key(d) : d \in TaxpayerInfoDicts},
            b \in {Absent, Key("corp")},
            r \in {Key(d) : d \in RefundResultDicts} }
    \cup { [EmptyScenarioDict EXCEPT
                !.user_info = Key([EmptyUserInfoDict EXCEPT !.birthday = y]),
                !.biz_type  = b,
                !.check_config = c] :
            y \in {Absent, Key(Str("2024"))},
            b \in {Key("individual_biz"), Key("non_biz"), Key("freelancer")},
            c \in {Absent, Key(NotAMapping)} }
    \cup { [EmptyScenarioDict EXCEPT !.user_info = Key(NotAMapping), !.taxpayer_info = t] :
            t \in {Key(d) : d \in TaxpayerInfoDicts} }

ValidateArgs == [scenario : {Absent} \cup {Key(d) : d \in ScenarioDicts}]

\* The files TPL_*.json of the templates directory, in the order glob gives them.
TemplateFiles ==
    << [template_id |-> "TPL_NORMAL_A", parses |-> TRUE,
        data |-> [EmptyScenarioDict EXCEPT
                    !.description   = Key("normal refund"),
                    !.biz_type      = Key("individual_biz"),
                    !.refund_result = Key([EmptyRefundResultDict EXCEPT
                                            !.total_refund = Key(3000000)])]],
       [template_id |-> "TPL_ERR_B", parses |-> TRUE,
        data |-> [EmptyScenarioDict EXCEPT
                    !.description = Key("no tax return"),
                    !.load_config = Key([success    |-> Key(FALSE),
                                         error_type |-> Key(Str("NO_TAX_RETURN")),
                                         error_msg  |-> Absent])]],
       [template_id |-> "TPL_CORP_C", parses |-> TRUE,
        data |-> [EmptyScenarioDict EXCEPT
                    !.biz_type      = Key("corp"),
                    !.refund_result = Key(EmptyRefundResultDict)]],
       [template_id |-> "TPL_ERR_CORP_D", parses |-> TRUE,
        data |-> [EmptyScenarioDict EXCEPT !.biz_type = Key("corp")]] >>

MaxTemplateFiles == 3

FilesOnDisk == SubSeq(TemplateFiles, 1, MaxTemplateFiles)

\* The directory is missing, holds the files, or holds them with the second
\* one cut short by a writer.
DiskStates ==
    {NoDisk,
     [templates_dir_exists |-> TRUE, files |-> FilesOnDisk],
     [templates_dir_exists |-> TRUE,
      files |-> [FilesOnDisk EXCEPT ![2].parses = FALSE]],
     [templates_dir_exists |-> TRUE, files |-> <<>>]}

TemplateIdArgs == {Absent, Key(""), Key("TPL_ERR_B"), Key("TPL_CORP_C"), Key("TPL_MISSING")}

InlineScenarios ==
    {EmptyScenarioDict,
     [EmptyScenarioDict EXCEPT
        !.scenario_name = Key("inline"),
        !.refund_result = Key([EmptyRefundResultDict EXCEPT !.total_refund = Key(100000)])]}

UserErnArgs == {Absent, Key("")} \cup {Key(k) : k \in UserErns}

TemplateLoadArgs == [template_id : TemplateIdArgs]

TemplateListArgs ==
    [category : {Absent, Key("all"), Key("normal"), Key("error"), Key("corp"),
                 Key("other")}]

AssignArgs ==
    [user_ern    : UserErnArgs,
     scenario    : {Absent} \cup {Key(d) : d \in InlineScenarios},
     template_id : TemplateIdArgs]

UnassignArgs == [user_ern : UserErnArgs]

\* What the boto3 block does: it goes through, or raises with a reason.
StoreOutcomes ==
    {[ok |-> TRUE, reason |-> ""],
     [ok |-> FALSE, reason |-> "unreachable"],
     [ok |-> FALSE, reason |-> "No module named boto3"]}

\* The scenarios that are serialized and read back.
ActionConfigs ==
    {ActionConfig_default,
     [success |-> FALSE, error_type |-> Str("NO_BIZ"), error_msg |-> Str("custom message")],
     [success |-> FALSE, error_type |-> Str("CALC_ERROR"), error_msg |-> None]}

ProgressConfigs ==
    {ProgressConfig_default,
     [enabled |-> TRUE, queue_name |-> "q",
      steps |-> << [step_name |-> "upload", progress |-> "50%", delay_seconds |-> 20],
                   [step_name |-> "finish", progress |-> "100%", delay_seconds |-> 5] >>],
     [enabled |-> TRUE, queue_name |-> "q",
      steps |-> << [step_name |-> "finish", progress |-> "100%", delay_seconds |-> 5],
                   [step_name |-> "upload", progress |-> "50%", delay_seconds |-> 20] >>]}

ScenarioConfigs ==
    { [ScenarioConfig_default EXCEPT
            !.scenario_name   = n,
            !.user_info       = u,
            !.taxpayer_info   = [tin |-> t],
            !.biz_type        = b,
            !.refund_result   = r,
            !.load_config     = a,
            !.check_config    = k,
            !.progress_config = p] :
        n \in {"", "fixture"},
        u \in {UserInfo_default,
               [name |-> "Hong", phone |-> Str("01012345678"), birthday |-> Str("19900101")]},
        t \in {None, Str("123456789012345678")},
        b \in SeqToSet(BizType),
        r \in {RefundResult_default,
               [total_refund |-> 3000000, startup_refund |-> 1000000,
                employment_refund |-> 1500000, insurance_refund |-> 500000]},
        a \in ActionConfigs,
        k \in {ActionConfig_default,
               [success |-> FALSE, error_type |-> Str("LOGIN_FAILED"),
                error_msg |-> Str("msg: hometax login failed")]},
        p \in ProgressConfigs }

\* Dicts with keys left out, as stored fixtures have them.
PartialDicts ==
    {EmptyScenarioDict}
    \cup { [EmptyScenarioDict EXCEPT
                !.scenario_name = Key("From Dict"),
                !.user_info     = Key([EmptyUserInfoDict EXCEPT !.name = n]),
                !.refund_result = Key([EmptyRefundResultDict EXCEPT !.total_refund = r]),
                !.load_config   = c,
                !.progress_config = g] :
            n \in {Absent, Key("Kim")},
            r \in {Absent, Key(750000)},
            c \in {Absent, Key(EmptyActionConfigDict),
                   Key([EmptyActionConfigDict EXCEPT !.error_type = Key(Str("NO_BIZ"))])},
            g \in {Absent, Key(EmptyProgressConfigDict),
                   Key([EmptyProgressConfigDict EXCEPT !.queue_name = Key("q")])} }

(***************************************************************************)
(* The tool calls                                                          *)
(***************************************************************************)
Call(name, arguments, result, store_calls) ==
    [op |-> name, arguments |-> arguments, result |-> result, store_calls |-> store_calls,
     outcome |-> [ok |-> TRUE, reason |-> ""]]

\* No call is being answered: the server waits for the next request.
NoCall == Call("none", <<>>, <<>>, <<>>)

Init ==
    /\ TEMPLATES = <<>>
    /\ disk = NoDisk
    /\ table = [k \in UserErns |-> Absent]
    /\ last = NoCall

ScenarioBuildNormal ==
    /\ last = NoCall
    /\ \E arguments \in BuildNormalArgs :
        last' = Call("scenario_build_normal", arguments,
                     handle_scenario_build_normal(arguments), <<>>)
    /\ UNCHANGED <<TEMPLATES, disk, table>>

ScenarioBuildError ==
    /\ last = NoCall
    /\ \E arguments \in BuildErrorArgs :
        last' = Call("scenario_build_error", arguments,
                     handle_scenario_build_error(arguments), <<>>)
    /\ UNCHANGED <<TEMPLATES, disk, table>>

ScenarioBuildProgress ==
    /\ last = NoCall
    /\ \E arguments \in BuildProgressArgs :
        last' = Call("scenario_build_progress", arguments,
                     handle_scenario_build_progress(arguments), <<>>)
    /\ UNCHANGED <<TEMPLATES, disk, table>>

ScenarioValidate ==
    /\ last = NoCall
    /\ \E arguments \in ValidateArgs :
        last' = Call("scenario_validate", arguments,
                     handle_scenario_validate(arguments), <<>>)
    /\ UNCHANGED <<TEMPLATES, disk, table>>

\* The result goes back to the caller; the server takes the next request.
Respond ==
    /\ last # NoCall
    /\ last' = NoCall
    /\ UNCHANGED <<TEMPLATES, disk, table>>

TemplateLoad ==
    /\ last = NoCall
    /\ \E arguments \in TemplateLoadArgs :
        LET out == handle_template_load(arguments, TEMPLATES, disk)
        IN  /\ TEMPLATES' = out.templates
            /\ last' = Call("template_load", arguments, out.result, <<>>)
    /\ UNCHANGED <<disk, table>>

TemplateList ==
    /\ last = NoCall
    /\ \E arguments \in TemplateListArgs :
        LET out == handle_template_list(arguments, TEMPLATES, disk)
        IN  /\ TEMPLATES' = out.templates
            /\ last' = Call("template_list", arguments, out.result, <<>>)
    /\ UNCHANGED <<disk, table>>

ScenarioAssign ==
    /\ last = NoCall
    /\ \E arguments \in AssignArgs, outcome \in StoreOutcomes :
        LET out == handle_scenario_assign(arguments, TEMPLATES, disk, outcome)
        IN  /\ TEMPLATES' = out.templates
            /\ table' = IF out.store_calls # <<>> /\ outcome.ok
                        THEN [table EXCEPT ![out.store_calls[1].key]
                                            = Key(out.store_calls[1].item)]
                        ELSE table
            /\ last' = [Call("scenario_assign", arguments, out.result, out.store_calls)
                            EXCEPT !.outcome = outcome]
    /\ UNCHANGED disk

ScenarioUnassign ==
    /\ last = NoCall
    /\ \E arguments \in UnassignArgs, outcome \in StoreOutcomes :
        LET out == handle_scenario_unassign(arguments, outcome)
        IN  /\ table' = IF out.store_calls # <<>> /\ outcome.ok
                        THEN [table EXCEPT ![out.store_calls[1].key] = Absent]
                        ELSE table
            /\ last' = [Call("scenario_unassign", arguments, out.result, out.store_calls)
                            EXCEPT !.outcome = outcome]
    /\ UNCHANGED <<TEMPLATES, disk>>

\* Somebody else writes, removes or repairs the templates directory.
DiskChanges ==
    /\ last = NoCall
    /\ disk' \in DiskStates \ {disk}
    /\ UNCHANGED <<TEMPLATES, table, last>>

\* The catalog and the assignment tools, with the directory and the store.
NextStore ==
    \/ TemplateList
    \/ TemplateLoad
    \/ ScenarioAssign
    \/ ScenarioUnassign
    \/ DiskChanges
    \/ Respond

SpecStore == Init /\ [][NextStore]_vars

\* The builders and the validator: the tools that touch neither catalog nor store.
NextCore ==
    \/ ScenarioBuildNormal
    \/ ScenarioBuildError
    \/ ScenarioBuildProgress
    \/ ScenarioValidate
    \/ Respond

SpecCore == Init /\ [][NextCore]_vars

\* scenario.to_dict()
ToDict ==
    /\ last = NoCall
    /\ \E scenario \in ScenarioConfigs :
        last' = Call("to_dict", [scenario |-> scenario], to_dict(scenario), <<>>)
    /\ UNCHANGED <<TEMPLATES, disk, table>>

\* ScenarioConfig.from_dict(data), on what to_dict has just returned
FromDictOfToDict ==
    /\ last.op = "to_dict"
    /\ last' = Call("from_dict",
                    [scenario |-> Key(last.arguments.scenario), data |-> last.result],
                    from_dict(last.result), <<>>)
    /\ UNCHANGED <<TEMPLATES, disk, table>>

\* ScenarioConfig.from_dict(data), on a dict with keys left out
FromDictOfPartial ==
    /\ last = NoCall
    /\ \E data \in PartialDicts :
        last' = Call("from_dict", [scenario |-> Absent, data |-> data],
                     from_dict(data), <<>>)
    /\ UNCHANGED <<TEMPLATES, disk, table>>

\* Serialization on its own, as tests/test_server.py exercises it.
NextSerial ==
    \/ ToDict
    \/ FromDictOfToDict
    \/ FromDictOfPartial
    \/ Respond

SpecSerial == Init /\ [][NextSerial]_vars

\* scenario_validate called with the scenario a builder has just returned
ScenarioValidateReturned ==
    /\ last.op \in {"scenario_build_normal", "scenario_build_error",
                    "scenario_build_progress"}
    /\ "scenario" \in DOMAIN last.result
    /\ LET arguments == [scenario |-> Key(last.result.scenario)]
       IN  last' = Call("scenario_validate", arguments,
                        handle_scenario_validate(arguments), <<>>)
    /\ UNCHANGED <<TEMPLATES, disk, table>>

\* A caller that builds a scenario and validates what it got.
NextChain ==
    \/ ScenarioBuildNormal
    \/ ScenarioBuildError
    \/ ScenarioBuildProgress
    \/ ScenarioValidateReturned
    \/ Respond

SpecChain == Init /\ [][NextChain]_vars

\* Calls of independent callers on the core tools. No handler body holds an
\* await (server.py:322-544), so the event loop runs each call to its end
\* before the next: callers interleave as whole handlers, in any order, while
\* the templates directory may change between two calls.
NextConcurrent ==
    \/ ScenarioBuildNormal
    \/ ScenarioBuildError
    \/ ScenarioBuildProgress
    \/ ScenarioValidate
    \/ TemplateList
    \/ TemplateLoad
    \/ DiskChanges
    \/ Respond

SpecConcurrent == Init /\ [][NextConcurrent]_vars

\* Every tool of call_tool that the model covers, with the directory and the store.
Next == NextCore \/ NextStore

Spec == Init /\ [][Next]_vars

(***************************************************************************)
(* Reading a returned scenario dict                                        *)
(***************************************************************************)
\* The four stages that have an ActionConfig slot on the scenario.
Slots == {"cert_request", "cert_response", "check", "load"}

SlotConfig(rep, stage) == rep[stage \o "_config"][1]

SlotSucceeds(rep, stage) == SlotConfig(rep, stage).success[1]

FailingSlots(rep) == {stage \in Slots : ~SlotSucceeds(rep, stage)}

Returned(name) == last.op = name /\ "scenario" \in DOMAIN last.result

(***************************************************************************)
(* C1: the error catalog is complete, and build_error with a catalog kind  *)
(* and neither message nor stage returns a scenario whose slot for the     *)
(* kind's default stage holds the failing ActionConfig, with error_type    *)
(* the kind's canonical string and error_msg the kind's canonical message. *)
(***************************************************************************)
C1_NoMessageNoStage ==
    /\ last.op = "scenario_build_error"
    /\ Get(last.arguments.error_type, "") \in SeqToSet(ErrorType)
    /\ Get(last.arguments.error_msg, "") = ""
    /\ Get(last.arguments.action, "") = ""

C1_ErrorCatalogCompleteness ==
    /\ \A kind \in SeqToSet(ErrorType) :
        /\ kind \in DOMAIN ERROR_MESSAGES
        /\ ERROR_MESSAGES[kind] # ""
        /\ kind \in DOMAIN ERROR_DEFAULT_ACTION
        /\ ERROR_DEFAULT_ACTION[kind] \in SeqToSet(ActionType)
    /\ C1_NoMessageNoStage =>
        /\ "scenario" \in DOMAIN last.result
        /\ LET kind  == last.arguments.error_type[1]
               stage == ERROR_DEFAULT_ACTION[kind]
           IN  /\ stage \in Slots
               /\ SlotConfig(last.result.scenario, stage)
                    = [success    |-> Key(FALSE),
                       error_type |-> Key(Str(kind)),
                       error_msg  |-> Key(Str(ERROR_MESSAGES[kind]))]

C1_Witness ==
    /\ C1_NoMessageNoStage
    /\ last.arguments.error_type = Key("LOGIN_FAILED")
    /\ last.arguments.error_msg = Absent
    /\ last.arguments.action = Absent
    /\ "scenario" \in DOMAIN last.result
    /\ ~SlotSucceeds(last.result.scenario, "check")

(***************************************************************************)
(* C2: build_error with an error_type outside the taxonomy, whatever the   *)
(* user name, message and stage, returns the unknown-kind failure with the *)
(* list of valid kinds, and no scenario.                                   *)
(***************************************************************************)
C2_UnknownKind ==
    /\ last.op = "scenario_build_error"
    /\ Get(last.arguments.error_type, "") \notin SeqToSet(ErrorType)

C2_UnknownErrorRejection ==
    C2_UnknownKind =>
        /\ last.result
            = [error           |-> "Unknown error type: "
                                    \o Get(last.arguments.error_type, ""),
               available_types |-> ErrorType]
        /\ "scenario" \notin DOMAIN last.result

C2_Witness ==
    /\ C2_UnknownKind
    /\ last.arguments.error_type = Key("not-a-real-kind")
    /\ last.arguments.user_name = Key("Hong")
    /\ last.arguments.error_msg = Key("custom message")
    /\ last.arguments.action = Key("check")
    /\ "error" \in DOMAIN last.result

(***************************************************************************)
(* C3: a scenario returned by build_error, with the stage one of the four  *)
(* slots or omitted, fails in exactly the slot of the resolved stage and   *)
(* succeeds in the other three; a scenario returned by build_normal or     *)
(* build_progress succeeds in all four slots.                              *)
(***************************************************************************)
C3_ResolvedStage ==
    IF Get(last.arguments.action, "") = ""
    THEN ERROR_DEFAULT_ACTION[last.arguments.error_type[1]]
    ELSE last.arguments.action[1]

C3_FailingSlotCount ==
    /\ (Returned("scenario_build_error")
            /\ Get(last.arguments.action, "") \in Slots \cup {""})
        => FailingSlots(last.result.scenario) = {C3_ResolvedStage}
    /\ (Returned("scenario_build_normal") \/ Returned("scenario_build_progress"))
        => FailingSlots(last.result.scenario) = {}

C3_Witness ==
    /\ Returned("scenario_build_error")
    /\ last.arguments.action = Key("cert_request")
    /\ FailingSlots(last.result.scenario) = {"cert_request"}

(***************************************************************************)
(* Reading an assignment call                                              *)
(***************************************************************************)
\* The catalog in catalog order, as the call left it.
CatalogIds == [i \in DOMAIN TEMPLATES |-> TEMPLATES[i].template_id]

InCatalog(template_id) == \E i \in DOMAIN TEMPLATES : TEMPLATES[i].template_id = template_id

CatalogEntry(template_id) ==
    TEMPLATES[CHOOSE i \in DOMAIN TEMPLATES : TEMPLATES[i].template_id = template_id].data

\* An external id is given when user_ern is a non-empty string.
ExternalIdGiven == Get(last.arguments.user_ern, "") # ""

InlineGiven == last.arguments.scenario # Absent

\* A template_id is given when it is a non-empty string.
TemplateIdGiven == Get(last.arguments.template_id, "") # ""

\* The store was called and the call failed.
StoreFailed == last.store_calls # <<>> /\ ~last.outcome.ok

(***************************************************************************)
(* C4: when the store's put fails during assign, the result has success    *)
(* false, an error that contains the store's reason, and the scenario that *)
(* was to be persisted: the inline value when one was used, the template's *)
(* catalog entry when the scenario was resolved by template_id.            *)
(***************************************************************************)
C4_PutFailed == last.op = "scenario_assign" /\ StoreFailed

C4_AssignmentRecovery ==
    C4_PutFailed =>
        /\ last.result.success = FALSE
        /\ Contains(last.result.error, last.outcome.reason)
        /\ "scenario" \in DOMAIN last.result
        /\ last.result.scenario = last.store_calls[1].item.scenario_config
        /\ (InlineGiven /\ TruthyDict(last.arguments.scenario[1]))
            => last.result.scenario = last.arguments.scenario[1]
        /\ ~InlineGiven
            => /\ InCatalog(last.arguments.template_id[1])
               /\ last.result.scenario = CatalogEntry(last.arguments.template_id[1])

C4_Witness ==
    /\ C4_PutFailed
    /\ last.outcome.reason = "unreachable"
    /\ ~InlineGiven
    /\ last.arguments.template_id = Key("TPL_ERR_B")
    /\ last.result.scenario = CatalogEntry("TPL_ERR_B")

(***************************************************************************)
(* C5: with an external id, assign persists the inline scenario whenever   *)
(* one is given, the dict with every field omitted included, and then      *)
(* ignores template_id; it persists the catalog entry when only a          *)
(* template_id of the catalog is given; it fails with the missing-input    *)
(* error when neither is given.                                            *)
(***************************************************************************)
C5_Persisted(scenario) ==
    /\ last.store_calls # <<>>
    /\ \A i \in DOMAIN last.store_calls :
        /\ last.store_calls[i].capability = "put"
        /\ last.store_calls[i].item.scenario_config = scenario

C5_InlineTakesPrecedence ==
    (last.op = "scenario_assign" /\ ExternalIdGiven) =>
        /\ InlineGiven => C5_Persisted(last.arguments.scenario[1])
        /\ (~InlineGiven /\ TemplateIdGiven /\ InCatalog(last.arguments.template_id[1]))
            => C5_Persisted(CatalogEntry(last.arguments.template_id[1]))
        /\ (~InlineGiven /\ last.arguments.template_id = Absent)
            => last.result = [error |-> "Either scenario or template_id is required"]

(***************************************************************************)
(* C6: load_template of an id that is not in the catalog, and assign that  *)
(* looks a template_id up (external id given, no inline scenario used) and *)
(* does not find it, return the template-not-found failure with the ids of *)
(* the catalog in catalog order; load_template of an id of the catalog     *)
(* returns that entry unchanged.                                           *)
(***************************************************************************)
C6_NotFound(template_id) ==
    [error               |-> "Template not found: " \o template_id,
     available_templates |-> CatalogIds]

C6_AssignLooksUp ==
    /\ last.op = "scenario_assign"
    /\ ExternalIdGiven
    /\ ~(InlineGiven /\ TruthyDict(last.arguments.scenario[1]))
    /\ TemplateIdGiven

C6_TemplateNotFound ==
    /\ last.op = "template_load" =>
        LET template_id == Get(last.arguments.template_id, "")
        IN  IF InCatalog(template_id)
            THEN last.result = CatalogEntry(template_id)
            ELSE last.result = C6_NotFound(template_id)
    /\ (C6_AssignLooksUp /\ ~InCatalog(last.arguments.template_id[1]))
        => /\ last.result = C6_NotFound(last.arguments.template_id[1])
           /\ last.store_calls = <<>>

C6_Witness ==
    /\ C6_AssignLooksUp
    /\ last.arguments.template_id = Key("TPL_MISSING")
    /\ Len(TEMPLATES) >= 3
    /\ last.result.available_templates = <<"TPL_NORMAL_A", "TPL_ERR_B", "TPL_CORP_C">>

(***************************************************************************)
(* C7: one call of assign makes at most one put and nothing else, one call *)
(* of unassign at most one delete and nothing else; a failed store call is *)
(* reported in the result of the same call; an assign that fails before    *)
(* the store step (no external id, no scenario input, template not found)  *)
(* makes no store call.                                                    *)
(***************************************************************************)
C7_Capability(name) == IF name = "scenario_assign" THEN "put" ELSE "delete"

C7_SingleAttempt ==
    last.op \in {"scenario_assign", "scenario_unassign"} =>
        /\ Len(last.store_calls) <= 1
        /\ \A i \in DOMAIN last.store_calls :
            last.store_calls[i].capability = C7_Capability(last.op)
        /\ StoreFailed => last.result.success = FALSE
        /\ "success" \notin DOMAIN last.result => last.store_calls = <<>>
        /\ (last.op = "scenario_assign"
                /\ (~ExternalIdGiven
                    \/ (~InlineGiven /\ ~TemplateIdGiven)
                    \/ (~InlineGiven /\ TemplateIdGiven
                            /\ ~InCatalog(last.arguments.template_id[1]))))
            => last.store_calls = <<>>

C7_Witness ==
    /\ last.op = "scenario_assign"
    /\ StoreFailed
    /\ Len(last.store_calls) = 1
    /\ last.result.success = FALSE

(***************************************************************************)
(* C8: unassign with an external id calls delete keyed by that id; when    *)
(* the delete goes through the result has success true, and when it fails  *)
(* the result has success false and an error that contains the store's     *)
(* reason, and carries no scenario.                                        *)
(***************************************************************************)
C8_Unassign == last.op = "scenario_unassign" /\ ExternalIdGiven

C8_UnassignReportsFailure ==
    C8_Unassign =>
        /\ last.store_calls # <<>>
        /\ \A i \in DOMAIN last.store_calls :
            /\ last.store_calls[i].capability = "delete"
            /\ last.store_calls[i].key = last.arguments.user_ern[1]
        /\ last.outcome.ok => last.result.success = TRUE
        /\ ~last.outcome.ok =>
            /\ last.result.success = FALSE
            /\ Contains(last.result.error, last.outcome.reason)
        /\ "scenario" \notin DOMAIN last.result

C8_Witness ==
    /\ C8_Unassign
    /\ ~last.outcome.ok
    /\ last.outcome.reason = "unreachable"
    /\ last.result.success = FALSE

(***************************************************************************)
(* C9: for a scenario that deserializes, each of the four rules reports    *)
(* exactly when its own condition holds, whatever the other rules do: the  *)
(* birthday error iff birthday is set and not 8 long, the tin error iff    *)
(* tin is set and not 18 long, the zero-refund warning iff biz_type is     *)
(* individual_biz and total_refund is 0, the phone warning iff phone is    *)
(* set and not 11 long; nothing else is reported, and valid is true iff    *)
(* errors is empty.  A field is set when it holds a non-empty string.      *)
(* birthday "2024" with everything else at its default gives one error.    *)
(***************************************************************************)
C9_Input == Get(last.arguments.scenario, EmptyScenarioDict)

C9_Deserializable == last.op = "scenario_validate" /\ from_dict(C9_Input).ok

C9_SetWithLengthOther(field, n) == field # None /\ field[1] # "" /\ Len(field[1]) # n

C9_OnlyBirthday2024 ==
    from_dict(C9_Input).scenario
        = [ScenarioConfig_default EXCEPT !.user_info.birthday = Str("2024")]

C9_ValidatorRules ==
    C9_Deserializable =>
        LET scenario == from_dict(C9_Input).scenario
            errors   == last.result.errors
            warnings == last.result.warnings
        IN  /\ BIRTHDAY_ERROR \in SeqToSet(errors)
                <=> C9_SetWithLengthOther(scenario.user_info.birthday, 8)
            /\ TIN_ERROR \in SeqToSet(errors)
                <=> C9_SetWithLengthOther(scenario.taxpayer_info.tin, 18)
            /\ ZERO_REFUND_WARNING \in SeqToSet(warnings)
                <=> (scenario.biz_type = "individual_biz"
                        /\ scenario.refund_result.total_refund = 0)
            /\ PHONE_WARNING \in SeqToSet(warnings)
                <=> C9_SetWithLengthOther(scenario.user_info.phone, 11)
            /\ SeqToSet(errors) \subseteq {BIRTHDAY_ERROR, TIN_ERROR}
            /\ SeqToSet(warnings) \subseteq {ZERO_REFUND_WARNING, PHONE_WARNING}
            /\ Len(errors) = Cardinality(SeqToSet(errors))
            /\ Len(warnings) = Cardinality(SeqToSet(warnings))
            /\ last.result.valid <=> (errors = <<>>)
            /\ C9_OnlyBirthday2024 => errors = <<BIRTHDAY_ERROR>>

C9_Witness ==
    /\ C9_Deserializable
    /\ Len(last.result.errors) = 2
    /\ Len(last.result.warnings) = 2
    /\ ~last.result.valid

(***************************************************************************)
(* C10: when the input does not deserialize, validate still returns a      *)
(* result: valid is false, errors holds the parse failure and nothing      *)
(* else, and there is no warning.                                          *)
(***************************************************************************)
C10_NotDeserializable ==
    last.op = "scenario_validate" /\ ~from_dict(C9_Input).ok

C10_ParseFailureIsSingleError ==
    C10_NotDeserializable =>
        /\ DOMAIN last.result = {"valid", "errors", "warnings"}
        /\ last.result.valid = FALSE
        /\ Len(last.result.errors) = 1
        /\ Contains(last.result.errors[1], PARSE_ERROR)
        /\ last.result.errors[1] \notin {BIRTHDAY_ERROR, TIN_ERROR}
        /\ last.result.warnings = <<>>

C10_Witness ==
    /\ C10_NotDeserializable
    /\ IsMapping(C9_Input)
    /\ C9_Input.biz_type = Key("freelancer")
    /\ C9_Input.user_info = Key([EmptyUserInfoDict EXCEPT !.birthday = Key(Str("2024"))])
    /\ Len(last.result.errors) = 1

(***************************************************************************)
(* C11: for each of the categories all, normal, error and corp,            *)
(* list_templates returns one summary for every template of the catalog    *)
(* that passes the category's test on its id, and no other, in catalog     *)
(* order: error keeps the ids with "ERR", normal the ids without "ERR",    *)
(* corp the ids with "CORP", all every id.  A summary takes total_refund   *)
(* from refund_result.total_refund (0 when absent) and biz_type from the   *)
(* template ("unknown" when absent).                                       *)
(***************************************************************************)
C11_Category == Get(last.arguments.category, "all")

C11_Keeps(template) ==
    LET template_id == template.template_id
    IN  CASE C11_Category = "error"  -> Contains(template_id, "ERR")
          [] C11_Category = "normal" -> ~Contains(template_id, "ERR")
          [] C11_Category = "corp"   -> Contains(template_id, "CORP")
          [] OTHER                   -> TRUE

C11_TotalRefund(data) ==
    IF data.refund_result = Absent \/ data.refund_result[1].total_refund = Absent
    THEN 0
    ELSE data.refund_result[1].total_refund[1]

C11_BizType(data) == IF data.biz_type = Absent THEN "unknown" ELSE data.biz_type[1]

C11_Listed ==
    last.op = "template_list" /\ C11_Category \in {"all", "normal", "error", "corp"}

C11_CatalogFiltering ==
    C11_Listed =>
        LET kept   == SelectSeq(TEMPLATES, C11_Keeps)
            listed == last.result.templates
        IN  /\ Len(listed) = Len(kept)
            /\ last.result.count = Len(kept)
            /\ \A i \in DOMAIN listed :
                /\ listed[i].template_id = kept[i].template_id
                /\ listed[i].total_refund = C11_TotalRefund(kept[i].data)
                /\ listed[i].biz_type = C11_BizType(kept[i].data)
            /\ \A i, j \in DOMAIN listed :
                listed[i].template_id = listed[j].template_id => i = j

C11_Witness ==
    /\ C11_Listed
    /\ C11_Category = "normal"
    /\ Len(last.result.templates) = 2
    /\ last.result.templates[1].template_id = "TPL_NORMAL_A"
    /\ last.result.templates[2].template_id = "TPL_CORP_C"
    /\ last.result.templates[2].total_refund = 0
    /\ last.result.templates[1].total_refund = 3000000

(***************************************************************************)
(* C12: build_progress returns a scenario whose progress_config is enabled *)
(* and carries the given queue_name.  With steps empty or omitted the      *)
(* steps are the four default ones, in order, at 10%, 30%, 60%, 90% with   *)
(* delays 0.5, 1.0, 1.5, 0.5 s.  With steps given, the output has as many  *)
(* steps, in the same order, with the same step_name and progress, and the *)
(* supplied delay, or 0.5 s where the step supplies none.                  *)
(***************************************************************************)
C12_Progress == last.result.scenario.progress_config[1]

C12_Steps == C12_Progress.steps[1]

C12_Supplied == Get(last.arguments.steps, <<>>)

C12_Step(name, progress, delay) ==
    [step_name |-> Key(name), progress |-> Key(progress), delay_seconds |-> Key(delay)]

C12_ProgressSteps ==
    Returned("scenario_build_progress") =>
        /\ C12_Progress.enabled = Key(TRUE)
        /\ last.arguments.queue_name # Absent
            => C12_Progress.queue_name = last.arguments.queue_name
        /\ C12_Supplied = <<>> =>
            C12_Steps = << C12_Step("hometax login", "10%", 5),
                           C12_Step("history lookup", "30%", 10),
                           C12_Step("refund calculation", "60%", 15),
                           C12_Step("result generation", "90%", 5) >>
        /\ C12_Supplied # <<>> =>
            /\ Len(C12_Steps) = Len(C12_Supplied)
            /\ \A i \in DOMAIN C12_Supplied :
                /\ C12_Steps[i].step_name = C12_Supplied[i].step_name
                /\ C12_Steps[i].progress = C12_Supplied[i].progress
                /\ C12_Steps[i].delay_seconds
                    = IF C12_Supplied[i].delay_seconds = Absent
                      THEN Key(5)
                      ELSE C12_Supplied[i].delay_seconds

C12_Witness ==
    /\ Returned("scenario_build_progress")
    /\ last.arguments.steps = Key(<<>>)
    /\ last.arguments.queue_name = Key("q")
    /\ Len(C12_Steps) = 4
    /\ C12_Steps[3].delay_seconds = Key(15)

(***************************************************************************)
(* C13: once the catalog holds templates, no call of list_templates,       *)
(* load_template, assign or unassign, and no change of the directory or    *)
(* outcome of the store, adds, removes, reorders or changes an entry:      *)
(* every later call sees the same ids with the same contents in the same   *)
(* order.                                                                  *)
(***************************************************************************)
C13_CatalogIsReadOnly ==
    [][TEMPLATES # <<>> => TEMPLATES' = TEMPLATES]_vars

\* A template was assigned from a loaded catalog while the store failed, and
\* the directory no longer holds what the catalog was loaded from.
C13_Witness ==
    /\ last.op = "scenario_assign"
    /\ StoreFailed
    /\ ~InlineGiven
    /\ Len(TEMPLATES) = Len(FilesOnDisk)
    /\ CatalogIds = [i \in DOMAIN FilesOnDisk |-> FilesOnDisk[i].template_id]
    /\ last.result.scenario = CatalogEntry(last.arguments.template_id[1])

(***************************************************************************)
(* C14: from_dict(to_dict(s)) is s, field by field, for every scenario s:  *)
(* nested objects, the order of the progress steps and the enum strings    *)
(* included; and from_dict of a dict with a key left out gives that field  *)
(* its default: name "test user", biz_type individual_biz, total_refund 0, *)
(* every ActionConfig slot success=true, progress disabled.                *)
(***************************************************************************)
C14_ReadBack == last.op = "from_dict" /\ last.arguments.scenario # Absent

C14_Partial == last.op = "from_dict" /\ last.arguments.scenario = Absent

C16_Kind == last.arguments.error_type[1]

C16_ResolvedStage ==
    IF Get(last.arguments.action, "") # ""
    THEN last.arguments.action[1]
    ELSE IF C16_Kind \in DOMAIN ERROR_DEFAULT_ACTION
    THEN ERROR_DEFAULT_ACTION[C16_Kind]
    ELSE "load"

C16_ConfigKeys ==
    {key \in DOMAIN last.result.scenario :
        Len(key) > 7 /\ SubSeq(key, Len(key) - 6, Len(key)) = "_config"}

C16_CalcIsLoadFailure ==
    (Returned("scenario_build_error") /\ C16_ResolvedStage = "calc") =>
        /\ FailingSlots(last.result.scenario) = {"load"}
        /\ SlotConfig(last.result.scenario, "load").error_type[1] = Str(C16_Kind)
        /\ SlotConfig(last.result.scenario, "load").error_msg[1] # None
        /\ \A stage \in {"cert_request", "cert_response", "check"} :
            SlotSucceeds(last.result.scenario, stage)
        /\ C16_ConfigKeys = {stage \o "_config" : stage \in Slots} \cup {"progress_config"}

C16_Witness ==
    /\ Returned("scenario_build_error")
    /\ last.arguments.action = Key("calc")
    /\ last.arguments.error_type = Key("CALC_ERROR")
    /\ FailingSlots(last.result.scenario) = {"load"}
    /\ SlotConfig(last.result.scenario, "load").error_type[1] = Str("CALC_ERROR")

(***************************************************************************)
(* C17: scenario_validate applied to the scenario that build_normal,       *)
(* build_error or build_progress returned answers valid=true with an empty *)
(* errors list; warnings may be present.                                   *)
(***************************************************************************)
C17_Validated == last.op = "scenario_validate"

C17_BuiltScenariosValidate ==
    C17_Validated =>
        /\ "valid" \in DOMAIN last.result
        /\ last.result.valid = TRUE
        /\ last.result.errors = <<>>

C17_Witness ==
    /\ C17_Validated
    /\ last.result.valid = TRUE
    /\ last.result.errors = <<>>
    /\ last.result.warnings = <<ZERO_REFUND_WARNING>>
    /\ ~SlotSucceeds(last.arguments.scenario[1], "check")

(***************************************************************************)
(* C15: whatever calls of other callers came before it, a call of a        *)
(* builder, of validate, of list_templates or of load_template returns     *)
(* what the same call returns alone (on a server that has answered nothing *)
(* yet) with the same arguments and the same catalog, and changes no state *)
(* that another call reads: not the template cache, not the directory, not *)
(* the assignment table.                                                   *)
(***************************************************************************)
C15_CoreOperations ==
    {"scenario_build_normal", "scenario_build_error", "scenario_build_progress",
     "scenario_validate", "template_list", "template_load"}

\* A core call is handled in this step.
C15_CoreActs == last = NoCall /\ last'.op \in C15_CoreOperations

\* What the call returns on a server that has answered nothing yet.
C15_Alone(call, dir) ==
    CASE call.op = "scenario_build_normal"   -> handle_scenario_build_normal(call.arguments)
      [] call.op = "scenario_build_error"    -> handle_scenario_build_error(call.arguments)
      [] call.op = "scenario_build_progress" -> handle_scenario_build_progress(call.arguments)
      [] call.op = "scenario_validate"       -> handle_scenario_validate(call.arguments)
      [] call.op = "template_list"  -> handle_template_list(call.arguments, <<>>, dir).result
      [] call.op = "template_load"  -> handle_template_load(call.arguments, <<>>, dir).result

\* The call works on the catalog it would work on alone.
C15_SameCatalog == load_templates(TEMPLATES, disk) = load_templates(<<>>, disk)

C15_SameResult == C15_SameCatalog => last'.result = C15_Alone(last', disk)

C15_FillsEmptyCache ==
    /\ TEMPLATES = <<>>
    /\ last'.op \in {"template_list", "template_load"}
    /\ TEMPLATES' = load_templates(<<>>, disk)

====
